---- MODULE Spec2Model ----
(***************************************************************************)
(* A model of hannds_data.py: the MIDI quantization (AllData._convert),    *)
(* the file split (AllData.initialize_from_dir), the windowed dataset      *)
(* (HanndsDataset) and the batch-continuation index order                  *)
(* (ContinuationSampler).                                                  *)
(*                                                                         *)
(* Each component has its own specification (SpecSampler, SpecDataset,     *)
(* SpecConvert, SpecSplit).  The variables of the components a             *)
(* specification does not exercise keep their idle values.                 *)
(***************************************************************************)
EXTENDS Integers, Sequences, FiniteSets

\* ------------------------------------------------------------------------
\* Bounds of the model
\* ------------------------------------------------------------------------
MaxLenDataset == 6
MaxBatch == 3
MaxT == 6
MaxSeq == 3
MaxIdx == 4
MaxTime == 3
MaxNotes == 2
TimeDen == 40
MaxFiles == 7

\* ------------------------------------------------------------------------
\* Python arithmetic
\* ------------------------------------------------------------------------
\* Python's a // b for b # 0: the floor of the quotient, for either sign of b.
FloorDiv(a, b) == IF b > 0 THEN a \div b ELSE (0 - a) \div (0 - b)

Min(a, b) == IF a < b THEN a ELSE b

Max(a, b) == IF a > b THEN a ELSE b

VARIABLES
    \* ContinuationSampler
    len_dataset,    \* self.len_dataset
    batch_size,     \* self.batch_size
    pep479,         \* whether the interpreter turns a StopIteration raised in a
                    \* generator body into RuntimeError (Python >= 3.7) or lets
                    \* it end the iteration (Python < 3.7)
    gen_pc,         \* the generator of _generate_indices: "none", "created",
                    \* "suspended" (at the yield), "exhausted", or the error
                    \* that ended it
    step,           \* num_batches = step
    i,              \* outer loop variable
    j,              \* inner loop variable
    index,          \* the index at the yield
    emitted,        \* the indices the consumer has pulled, in order
    sampler_len     \* what the last __len__ call did: [status, value]

VARIABLES
    \* HanndsDataset
    ds_pc,          \* "new" before __init__ has run, "ready" after it
    npy_data,       \* the array given to __init__: [T |-> its first dimension,
                    \* cells |-> the <<t, hand, key>> that are True]
    len_sequence,   \* self.len_sequence
    data,           \* self.data: [T, X, Y], X the <<t, key>> holding 1.0 and
                    \* Y the <<t, key, label>> with a label other than 0
    ds_len,         \* what the last __len__ call did: [status, value]
    item,           \* what the last __getitem__ call did: [idx, status, rows],
                    \* rows the rows of X and of Y it returned
    prev_item       \* what the __getitem__ call before that did

VARIABLES
    \* AllData._convert, for one MIDI file.  Times are whole multiples of
    \* 1/TimeDen seconds.
    conv_pc,        \* "start", "fill" (in the loops over the notes), "saved",
                    \* or "IndexError"
    ms_window,      \* the argument ms_window
    duration,       \* midi.get_end_time(), in 1/TimeDen seconds
    samples_per_sec,
    n_windows,
    hands,          \* the <<t, hand, key>> of the array hands that are True
    hand,           \* the loop variable hand; 2 once both hands are done
    notes           \* the notes the loops have gone through

VARIABLES
    \* AllData.initialize_from_dir.  A file is the number of its place in
    \* the sorted list _get_files_from_path returns.
    split_pc,       \* "listed", "shuffling", "shuffled", "split", or
                    \* "AssertionError"
    all_files,
    shuffle_i,      \* the place r.shuffle swaps next, from the last down
    n_valid_test,
    n_train,
    train_files,
    valid_files,
    test_files

samplerVars == <<len_dataset, batch_size, pep479, gen_pc, step, i, j, index,
                 emitted, sampler_len>>

datasetVars == <<ds_pc, npy_data, len_sequence, data, ds_len, item, prev_item>>

convertVars == <<conv_pc, ms_window, duration, samples_per_sec, n_windows,
                 hands, hand, notes>>

splitVars == <<split_pc, all_files, shuffle_i, n_valid_test, n_train,
               train_files, valid_files, test_files>>

vars == <<samplerVars, datasetVars, convertVars, splitVars>>

\* What a call left behind: not made yet, a value returned, an exception.
NotCalled == [status |-> "none", value |-> 0]

Returned(v) == [status |-> "returned", value |-> v]

Raised(e) == [status |-> e, value |-> 0]

NoItem == [idx |-> 0, status |-> "none", rows |-> <<>>]

\* ------------------------------------------------------------------------
\* ContinuationSampler
\* ------------------------------------------------------------------------
GenErrors == {"RuntimeError", "ZeroDivisionError"}

GenEnded == {"exhausted"} \cup GenErrors

\* __init__: the two arguments are stored, nothing is validated.
SamplerInit ==
    /\ len_dataset \in 0..MaxLenDataset
    /\ batch_size \in (0 - MaxBatch)..MaxBatch
    /\ pep479 \in BOOLEAN
    /\ gen_pc = "none"
    /\ step = 0
    /\ i = 0
    /\ j = 0
    /\ index = 0
    /\ emitted = <<>>
    /\ sampler_len = NotCalled

SamplerIdle ==
    /\ len_dataset = 0
    /\ batch_size = 1
    /\ pep479 = TRUE
    /\ gen_pc = "none"
    /\ step = 0
    /\ i = 0
    /\ j = 0
    /\ index = 0
    /\ emitted = <<>>
    /\ sampler_len = NotCalled

DatasetIdle ==
    /\ ds_pc = "new"
    /\ npy_data = [T |-> 0, cells |-> {}]
    /\ len_sequence = 0 - 1
    /\ data = [T |-> 0, X |-> {}, Y |-> {}]
    /\ ds_len = NotCalled
    /\ item = NoItem
    /\ prev_item = NoItem

ConvertIdle ==
    /\ conv_pc = "start"
    /\ ms_window = 20
    /\ duration = 0
    /\ samples_per_sec = 0
    /\ n_windows = 0
    /\ hands = {}
    /\ hand = 0
    /\ notes = {}

SplitIdle ==
    /\ split_pc = "listed"
    /\ all_files = <<1>>
    /\ shuffle_i = 0
    /\ n_valid_test = 0
    /\ n_train = 0
    /\ train_files = <<>>
    /\ valid_files = <<>>
    /\ test_files = <<>>

\* __iter__: calling the generator function runs none of its body.
SamplerIter ==
    /\ gen_pc = "none"
    /\ gen_pc' = "created"
    /\ UNCHANGED <<len_dataset, batch_size, pep479, step, i, j, index, emitted,
                   sampler_len>>
    /\ UNCHANGED <<datasetVars, convertVars, splitVars>>

\* __len__
Sampler__len__ ==
    IF batch_size = 0 THEN Raised("ZeroDivisionError")
    ELSE Returned(FloorDiv(len_dataset, batch_size) * batch_size)

SamplerLen ==
    /\ sampler_len = NotCalled
    /\ sampler_len' = Sampler__len__
    /\ UNCHANGED <<len_dataset, batch_size, pep479, gen_pc, step, i, j, index,
                   emitted>>
    /\ UNCHANGED <<datasetVars, convertVars, splitVars>>

\* The statement after the loops: raise StopIteration.
RaiseStopIteration == IF pep479 THEN "RuntimeError" ELSE "exhausted"

\* The generator runs off the end of range(num_batches).
GenFinish(st) ==
    /\ gen_pc' = RaiseStopIteration
    /\ step' = st
    /\ UNCHANGED <<i, j, index, emitted>>

\* The generator reaches `yield index` with the loop variables as given.
GenYield(st, i1, j1, index1) ==
    /\ gen_pc' = "suspended"
    /\ step' = st
    /\ i' = i1
    /\ j' = j1
    /\ index' = index1
    /\ emitted' = Append(emitted, index1)

\* GenOuter with the last batch left out.
GenOuterShort(st, i1) ==
    IF i1 < st - 1 /\ batch_size > 0
    THEN GenYield(st, i1, 0, i1)
    ELSE GenFinish(st)

\* for i in range(num_batches): index = i; for j in range(batch_size): ...
\* entered with the outer loop about to take the value i1.
GenOuter(st, i1) ==
    IF i1 < st /\ batch_size > 0
    THEN GenYield(st, i1, 0, i1)
    ELSE GenFinish(st)

\* IndexAfterYield with a row's spacing one too wide.
IndexAfterYieldWide(st) == index + st + 1

\* The step after a yield: index += step, and the inner loop goes on.
IndexAfterYield(st) == index + st

\* The first next(): the body runs from its first line to the first yield.
GenStart ==
    /\ gen_pc = "created"
    /\ IF batch_size = 0
       THEN /\ gen_pc' = "ZeroDivisionError"
            /\ UNCHANGED <<step, i, j, index, emitted>>
       ELSE GenOuter(FloorDiv(len_dataset, batch_size), 0)
    /\ UNCHANGED <<len_dataset, batch_size, pep479, sampler_len>>
    /\ UNCHANGED <<datasetVars, convertVars, splitVars>>

\* A later next(): the body resumes after the yield.
GenResume ==
    /\ gen_pc = "suspended"
    /\ IF j + 1 < batch_size
       THEN GenYield(step, i, j + 1, IndexAfterYield(step))
       ELSE GenOuter(step, i + 1)
    /\ UNCHANGED <<len_dataset, batch_size, pep479, sampler_len>>
    /\ UNCHANGED <<datasetVars, convertVars, splitVars>>

NextSampler == SamplerIter \/ SamplerLen \/ GenStart \/ GenResume

InitSampler == SamplerInit /\ DatasetIdle /\ ConvertIdle /\ SplitIdle

SpecSampler == InitSampler /\ [][NextSampler]_vars

\* ------------------------------------------------------------------------
\* HanndsDataset
\* ------------------------------------------------------------------------
LEFT_HAND_LABEL == 1

RIGHT_HAND_LABEL == 2

NumKeys == 88

Keys == 0..(NumKeys - 1)

\* The cells the arrays of the model may have set: either hand, at the
\* lowest key of the first row and at the highest key of the last row.
SampleCells(T) ==
    {c \in (0..(T - 1)) \X {0, 1} \X Keys :
        \/ c[1] = 0 /\ c[3] = 0
        \/ c[1] = T - 1 /\ c[3] = NumKeys - 1}

\* data[:, hand, :] as a mask over <<t, key>>.
HandMask(arr, h) ==
    {<<c[1], c[3]>> : c \in {d \in arr.cells : d[2] = h}}

\* np.logical_or of two masks.
LogicalOr(a, b) == a \cup b

\* Y[mask] = label: every entry the mask selects is overwritten.
MaskedAssign(Y, mask, label) ==
    {e \in Y : <<e[1], e[2]>> \notin mask} \cup {<<c[1], c[2], label>> : c \in mask}

\* ComputeXY with the two label passes in the other order.
ComputeXYLeftLast(arr) ==
    LET X == LogicalOr(HandMask(arr, 0), HandMask(arr, 1))
        Y0 == {}
        Y1 == MaskedAssign(Y0, HandMask(arr, 1), RIGHT_HAND_LABEL)
        Y2 == MaskedAssign(Y1, HandMask(arr, 0), LEFT_HAND_LABEL)
    IN [T |-> arr.T, X |-> X, Y |-> Y2]

\* _compute_X_Y
ComputeXY(arr) ==
    LET X == LogicalOr(HandMask(arr, 0), HandMask(arr, 1))
        Y0 == {}
        Y1 == MaskedAssign(Y0, HandMask(arr, 0), LEFT_HAND_LABEL)
        Y2 == MaskedAssign(Y1, HandMask(arr, 1), RIGHT_HAND_LABEL)
    IN [T |-> arr.T, X |-> X, Y |-> Y2]

\* X[t][k] as a number (astype(np.float32) of a boolean).
XAt(d, t, k) == IF <<t, k>> \in d.X THEN 1 ELSE 0

\* Y[t][k]
YAt(d, t, k) ==
    IF \E e \in d.Y : e[1] = t /\ e[2] = k
    THEN (CHOOSE e \in d.Y : e[1] = t /\ e[2] = k)[3]
    ELSE 0

\* The arguments of the constructor, before it runs.
DatasetNew ==
    /\ ds_pc = "new"
    /\ \E T \in 0..MaxT :
         \E cells \in SUBSET SampleCells(T) :
            npy_data = [T |-> T, cells |-> cells]
    /\ len_sequence \in (0 - MaxSeq)..MaxSeq
    /\ data = [T |-> 0, X |-> {}, Y |-> {}]
    /\ ds_len = NotCalled
    /\ item = NoItem
    /\ prev_item = NoItem

\* __init__
DatasetInit ==
    /\ ds_pc = "new"
    /\ ds_pc' = "ready"
    /\ data' = ComputeXY(npy_data)
    /\ UNCHANGED <<npy_data, len_sequence, ds_len, item, prev_item>>
    /\ UNCHANGED <<samplerVars, convertVars, splitVars>>

\* __len__
Dataset__len__ ==
    IF len_sequence = 0 - 1 THEN Returned(1)
    ELSE IF len_sequence = 0 THEN Raised("ZeroDivisionError")
    ELSE Returned(FloorDiv(data.T, len_sequence) - 1)

DatasetLen ==
    /\ ds_pc = "ready"
    /\ ds_len' = Dataset__len__
    /\ UNCHANGED <<ds_pc, npy_data, len_sequence, data, item, prev_item>>
    /\ UNCHANGED <<samplerVars, convertVars, splitVars>>

\* One bound of a slice of a dimension of length n, as Python normalises it.
SliceBound(n, b) == IF b < 0 THEN Max(b + n, 0) ELSE Min(b, n)

\* The rows a[start:stop] selects from a first dimension of length n.
PySlice(n, start, stop) ==
    LET s == SliceBound(n, start)
        e == SliceBound(n, stop)
    IN [p \in 1..Max(e - s, 0) |-> s + p - 1]

\* WindowEnd one row short.
WindowEndShort(start) == start + len_sequence - 1

\* end = start + self.len_sequence
WindowEnd(start) == start + len_sequence

\* __getitem__: the rows of X and of Y it returns, or the assertion failing.
Dataset__getitem__(idx) ==
    IF len_sequence = 0 - 1
    THEN [idx |-> idx, status |-> "returned", rows |-> PySlice(data.T, 0, data.T)]
    ELSE LET start == idx * len_sequence
             end == WindowEnd(start)
             res1 == PySlice(data.T, start, end)
             res2 == PySlice(data.T, start, end)
         IN IF Len(res1) = Len(res2) /\ Len(res2) = len_sequence
            THEN [idx |-> idx, status |-> "returned", rows |-> res1]
            ELSE [idx |-> idx, status |-> "AssertionError", rows |-> <<>>]

DatasetGetItem ==
    /\ ds_pc = "ready"
    /\ \E idx \in (0 - MaxIdx)..MaxIdx :
         item' = Dataset__getitem__(idx)
    /\ prev_item' = item
    /\ UNCHANGED <<ds_pc, npy_data, len_sequence, data, ds_len>>
    /\ UNCHANGED <<samplerVars, convertVars, splitVars>>

NextDataset == DatasetInit \/ DatasetLen \/ DatasetGetItem

InitDataset == DatasetNew /\ SamplerIdle /\ ConvertIdle /\ SplitIdle

SpecDataset == InitDataset /\ [][NextDataset]_vars

\* ------------------------------------------------------------------------
\* AllData._convert
\* ------------------------------------------------------------------------
\* The values of ms_window the model converts with: the default of 20 ms and
\* one whole second.
MsWindows == {20, 1000}

LowestPitch == 21

\* The pitches of the notes of the model: the ends of the piano's range and
\* the pitches next to them.
SamplePitches == {LowestPitch - 1, LowestPitch, LowestPitch + NumKeys - 1,
                  LowestPitch + NumKeys}

\* math.floor(t * samples_per_sec), t given in 1/TimeDen seconds.
FloorWindow(t, rate) == (t * rate) \div TimeDen

\* math.ceil(t * samples_per_sec), t given in 1/TimeDen seconds.
CeilWindow(t, rate) == 0 - ((0 - (t * rate)) \div TimeDen)

\* The argument and the file's end time, before the conversion starts.
ConvertNew ==
    /\ conv_pc = "start"
    /\ ms_window \in MsWindows
    /\ duration \in 0..MaxTime
    /\ samples_per_sec = 0
    /\ n_windows = 0
    /\ hands = {}
    /\ hand = 0
    /\ notes = {}

\* samples_per_sec, n_windows and the empty array.
ConvertAlloc ==
    /\ conv_pc = "start"
    /\ conv_pc' = "fill"
    /\ samples_per_sec' = 1000 \div ms_window
    /\ n_windows' = CeilWindow(duration, 1000 \div ms_window)
    /\ hands' = {}
    /\ hand' = 0
    /\ UNCHANGED <<ms_window, duration, notes>>
    /\ UNCHANGED <<samplerVars, datasetVars, splitVars>>

\* An integer index into a dimension of length n: a negative one counts from
\* the end, one outside -n..n-1 is an IndexError.
IndexInBounds(n, k) == 0 - n <= k /\ k < n

WrapIndex(n, k) == IF k < 0 THEN k + n ELSE k

\* The key index of a pitch.
KeyIndex(pitch) == pitch - LowestPitch

\* NoteEndWindow rounding down.
NoteEndWindowFloor(note) == FloorWindow(note.end, samples_per_sec)

\* end = int(math.ceil(note.end * samples_per_sec))
NoteEndWindow(note) == CeilWindow(note.end, samples_per_sec)

\* hands[start:end, hand, note.pitch - 21] = True, for one note.
WriteNote(note) ==
    LET start == FloorWindow(note.start, samples_per_sec)
        end == NoteEndWindow(note)
        rows == PySlice(n_windows, start, end)
        key == WrapIndex(NumKeys, KeyIndex(note.pitch))
    IN hands \cup {<<rows[p], note.hand, key>> : p \in 1..Len(rows)}

\* One pass of `for note in midi_hand.notes` for the hand the outer loop is at.
ConvertNote ==
    /\ conv_pc = "fill"
    /\ hand < 2
    /\ Cardinality(notes) < MaxNotes
    /\ \E pitch \in SamplePitches, start \in 0..duration, end \in 0..duration :
         LET note == [hand |-> hand, pitch |-> pitch, start |-> start, end |-> end]
         IN /\ note \notin notes
            /\ notes' = notes \cup {note}
            /\ IF IndexInBounds(NumKeys, KeyIndex(pitch))
               THEN /\ hands' = WriteNote(note)
                    /\ conv_pc' = "fill"
               ELSE /\ hands' = hands
                    /\ conv_pc' = "IndexError"
    /\ UNCHANGED <<ms_window, duration, samples_per_sec, n_windows, hand>>
    /\ UNCHANGED <<samplerVars, datasetVars, splitVars>>

\* The notes of the hand are through: the outer loop goes to the next hand.
ConvertNextHand ==
    /\ conv_pc = "fill"
    /\ hand < 2
    /\ hand' = hand + 1
    /\ UNCHANGED <<conv_pc, ms_window, duration, samples_per_sec, n_windows,
                   hands, notes>>
    /\ UNCHANGED <<samplerVars, datasetVars, splitVars>>

\* np.save(npy_file, hands)
ConvertSave ==
    /\ conv_pc = "fill"
    /\ hand = 2
    /\ conv_pc' = "saved"
    /\ UNCHANGED <<ms_window, duration, samples_per_sec, n_windows, hands, hand,
                   notes>>
    /\ UNCHANGED <<samplerVars, datasetVars, splitVars>>

NextConvert == ConvertAlloc \/ ConvertNote \/ ConvertNextHand \/ ConvertSave

InitConvert == ConvertNew /\ SamplerIdle /\ DatasetIdle /\ SplitIdle

SpecConvert == InitConvert /\ [][NextConvert]_vars

\* ------------------------------------------------------------------------
\* AllData.initialize_from_dir
\* ------------------------------------------------------------------------
\* all_files = self._get_files_from_path(...): sorted, not empty (an empty
\* result raises FileNotFoundError), no path twice.
SplitListed ==
    /\ split_pc = "listed"
    /\ \E n \in 1..MaxFiles : all_files = [p \in 1..n |-> p]
    /\ shuffle_i = 0
    /\ n_valid_test = 0
    /\ n_train = 0
    /\ train_files = <<>>
    /\ valid_files = <<>>
    /\ test_files = <<>>

\* r = random.Random(42); r.shuffle(all_files) begins: the swaps go from the
\* last place down to the second.
ShuffleBegin ==
    /\ split_pc = "listed"
    /\ split_pc' = "shuffling"
    /\ shuffle_i' = Len(all_files)
    /\ UNCHANGED <<all_files, n_valid_test, n_train, train_files, valid_files,
                   test_files>>
    /\ UNCHANGED <<samplerVars, datasetVars, convertVars>>

\* x[i], x[j] = x[j], x[i]
Swap(x, a, b) == [x EXCEPT ![a] = x[b], ![b] = x[a]]

\* One swap of the shuffle: the place shuffle_i with a place at or below it,
\* which the generator draws.
ShuffleSwap ==
    /\ split_pc = "shuffling"
    /\ shuffle_i > 1
    /\ \E q \in 1..shuffle_i : all_files' = Swap(all_files, shuffle_i, q)
    /\ shuffle_i' = shuffle_i - 1
    /\ UNCHANGED <<split_pc, n_valid_test, n_train, train_files, valid_files,
                   test_files>>
    /\ UNCHANGED <<samplerVars, datasetVars, convertVars>>

ShuffleEnd ==
    /\ split_pc = "shuffling"
    /\ shuffle_i <= 1
    /\ split_pc' = "shuffled"
    /\ UNCHANGED <<all_files, shuffle_i, n_valid_test, n_train, train_files,
                   valid_files, test_files>>
    /\ UNCHANGED <<samplerVars, datasetVars, convertVars>>

\* math.ceil(n * 0.15)
CeilFifteenPercent(n) == 0 - ((0 - (n * 15)) \div 100)

\* NumTrain taking off one of the two held-out lists only.
NumTrainOnce(n, nvt) == n - nvt

\* n_train = len(all_files) - n_valid_test * 2
NumTrain(n, nvt) == n - nvt * 2

\* lst[lo:hi] of a list.
ListSlice(lst, lo, hi) ==
    LET rows == PySlice(Len(lst), lo, hi)
    IN [p \in 1..Len(rows) |-> lst[rows[p] + 1]]

\* The rest of initialize_from_dir up to the three lists.
Partition ==
    /\ split_pc = "shuffled"
    /\ LET nvt == CeilFifteenPercent(Len(all_files))
           ntr == NumTrain(Len(all_files), nvt)
           range_train == <<0, ntr>>
           range_valid == <<range_train[2], range_train[2] + nvt>>
           range_test == <<range_valid[2], range_valid[2] + nvt>>
       IN /\ n_valid_test' = nvt
          /\ n_train' = ntr
          /\ IF range_test[2] = Len(all_files)
             THEN /\ split_pc' = "split"
                  /\ train_files' = ListSlice(all_files, range_train[1], range_train[2])
                  /\ valid_files' = ListSlice(all_files, range_valid[1], range_valid[2])
                  /\ test_files' = ListSlice(all_files, range_test[1], range_test[2])
             ELSE /\ split_pc' = "AssertionError"
                  /\ UNCHANGED <<train_files, valid_files, test_files>>
    /\ UNCHANGED <<all_files, shuffle_i>>
    /\ UNCHANGED <<samplerVars, datasetVars, convertVars>>

NextSplit == ShuffleBegin \/ ShuffleSwap \/ ShuffleEnd \/ Partition

InitSplit == SplitListed /\ SamplerIdle /\ DatasetIdle /\ ConvertIdle

SpecSplit == InitSplit /\ [][NextSplit]_vars

\* ------------------------------------------------------------------------
\* Properties of ContinuationSampler (under SpecSampler)
\* ------------------------------------------------------------------------
\* The generator ran through its loops (whatever the final raise became).
GenRanThrough == gen_pc \in {"exhausted", "RuntimeError"}

\* C1: for batch_size >= 1, with the stream cut into chunks of batch_size,
\* row r of the first chunk is r * stride, row r of every later chunk is row
\* r of the chunk before it plus 1, and there are stride chunks in all,
\* stride = floor(len_dataset / batch_size).
C1_RowsContinue ==
    batch_size >= 1 =>
        /\ \A p \in 1..Len(emitted) :
              /\ p <= batch_size =>
                    emitted[p] = (p - 1) * (len_dataset \div batch_size)
              /\ p > batch_size => emitted[p] = emitted[p - batch_size] + 1
        /\ GenRanThrough =>
              Len(emitted) = (len_dataset \div batch_size) * batch_size

C1_Witness ==
    /\ GenRanThrough
    /\ batch_size >= 2
    /\ len_dataset \div batch_size >= 2
    /\ Len(emitted) >= 2 * batch_size

\* C2: for batch_size >= 1 the stream holds every index below
\* stride * batch_size exactly once and nothing else, its length is what
\* __len__ reports, and the indices from stride * batch_size on are dropped.
C2_EachIndexOnce ==
    batch_size >= 1 =>
        LET total == (len_dataset \div batch_size) * batch_size
        IN /\ total <= len_dataset
           /\ \A p \in 1..Len(emitted) : 0 <= emitted[p] /\ emitted[p] < total
           /\ \A p, q \in 1..Len(emitted) : p # q => emitted[p] # emitted[q]
           /\ GenRanThrough =>
                 /\ Len(emitted) = total
                 /\ {emitted[p] : p \in 1..Len(emitted)} = 0..(total - 1)
           /\ sampler_len.status # "none" => sampler_len = Returned(total)

C2_Witness ==
    /\ GenRanThrough
    /\ batch_size >= 2
    /\ sampler_len.status = "returned"
    /\ Len(emitted) >= 2 * batch_size
    /\ Len(emitted) < len_dataset

\* C3: with batch_size > len_dataset (batch_size >= 1) the stream is empty
\* and the iteration ends normally, with no error.
C3_EmptyStreamEndsNormally ==
    (batch_size >= 1 /\ batch_size > len_dataset) =>
        /\ emitted = <<>>
        /\ gen_pc \in {"none", "created", "exhausted"}

\* C6: a sampler with batch_size <= 0 fails at once: no iterator is handed
\* out without an error, and no stream, empty or not, is ever completed.
C6_NonPositiveBatchRejected ==
    batch_size <= 0 => gen_pc \in {"none"} \cup GenErrors

\* ------------------------------------------------------------------------
\* Properties of HanndsDataset (under SpecDataset)
\* ------------------------------------------------------------------------
\* The rows [idx * len_sequence, idx * len_sequence + len_sequence).
WindowRows(idx) == [p \in 1..len_sequence |-> idx * len_sequence + p - 1]

RowSet(it) == {it.rows[p] : p \in 1..Len(it.rows)}

C5_BadLookupFails ==
    (ds_pc = "ready" /\ item.status = "returned") =>
        /\ len_sequence > 0 \/ len_sequence = 0 - 1
        /\ 0 <= item.idx
        /\ item.idx < (IF len_sequence = 0 - 1 THEN 1
                       ELSE (data.T \div len_sequence) - 1)

\* What _compute_X_Y has to yield for the array it was given.
LabelsRight ==
    \A t \in 0..(npy_data.T - 1), k \in Keys :
        LET left == <<t, 0, k>> \in npy_data.cells
            right == <<t, 1, k>> \in npy_data.cells
        IN /\ YAt(data, t, k) = (IF right THEN 2 ELSE IF left THEN 1 ELSE 0)
           /\ XAt(data, t, k) = 1 <=> YAt(data, t, k) # 0
           /\ XAt(data, t, k) \in {0, 1}

\* C9: the constructor leaves Y[t][k] = 2 where the right hand is active
\* (the left hand active there or not), 1 where only the left hand is, 0
\* where neither is, and X[t][k] = 1 exactly where Y[t][k] # 0.
C9_LabelsFollowHands == [][DatasetInit => (data'.T = npy_data.T /\ LabelsRight')]_vars

C9_Witness ==
    /\ ds_pc = "ready"
    /\ \E t \in 0..(npy_data.T - 1), k \in Keys :
         /\ <<t, 0, k>> \in npy_data.cells
         /\ <<t, 1, k>> \in npy_data.cells
         /\ YAt(data, t, k) = RIGHT_HAND_LABEL
    /\ \E t \in 0..(npy_data.T - 1), k \in Keys :
         /\ <<t, 0, k>> \in npy_data.cells
         /\ <<t, 1, k>> \notin npy_data.cells
         /\ YAt(data, t, k) = LEFT_HAND_LABEL

\* ------------------------------------------------------------------------
\* Properties of AllData._convert (under SpecConvert)
\* ------------------------------------------------------------------------
Rate == 1000 \div ms_window

\* A note the quantization is meant for.
ValidNote(n) ==
    /\ LowestPitch <= n.pitch
    /\ n.pitch <= LowestPitch + NumKeys - 1
    /\ 0 <= n.start
    /\ n.start <= n.end
    /\ n.end <= duration

\* floor(start * rate) <= t < ceil(end * rate), in whole numbers:
\* start < (t + 1) / rate and t / rate < end.
NoteCovers(n, t) ==
    /\ n.start * Rate < (t + 1) * TimeDen
    /\ t * TimeDen < n.end * Rate

\* The cells some note that was gone through covers.
CoveredCells ==
    UNION {{<<t, n.hand, n.pitch - LowestPitch>> :
               t \in {u \in 0..(n_windows - 1) : NoteCovers(n, u)}} : n \in notes}

\* C7: for valid notes (rate >= 1) the grid has ceil(duration * rate) rows
\* and the cell [t][h][pitch - 21] is true exactly when some note of hand h
\* with that pitch has floor(start * rate) <= t < ceil(end * rate).
C7_GridMatchesNotes ==
    (conv_pc \in {"fill", "saved"} /\ Rate >= 1 /\ \A n \in notes : ValidNote(n)) =>
        /\ n_windows * TimeDen >= duration * Rate
        /\ (n_windows - 1) * TimeDen < duration * Rate
        /\ \A n \in notes : \A t \in 0..n_windows :
              NoteCovers(n, t) => t < n_windows
        /\ hands = CoveredCells

C7_Witness ==
    /\ conv_pc = "saved"
    /\ \A n \in notes : ValidNote(n)
    /\ \E n, m \in notes :
         /\ n # m
         /\ n.hand = m.hand
         /\ n.pitch = m.pitch
         /\ n.start < n.end
         /\ (n.end * Rate) % TimeDen # 0
         /\ (n.start * Rate) % TimeDen # 0
    /\ Cardinality(hands) >= 3

\* A note the quantization is not meant for.
Malformed(n) ==
    \/ n.pitch < LowestPitch
    \/ n.pitch > LowestPitch + NumKeys - 1
    \/ n.end < n.start

\* C8: a note with a pitch outside [21, 108] or with its end before its
\* start makes the conversion fail, and no cell is written for it.
C8_MalformedRejected ==
    (\E n \in notes : Malformed(n)) =>
        /\ conv_pc = "IndexError"
        /\ hands = {}

\* ------------------------------------------------------------------------
\* Properties of AllData.initialize_from_dir (under SpecSplit)
\* ------------------------------------------------------------------------
Elems(lst) == {lst[p] : p \in 1..Len(lst)}

\* v = ceil(0.15 * n), in whole numbers.
IsCeilFifteenPercent(v, n) == 100 * v >= 15 * n /\ 100 * (v - 1) < 15 * n

\* The three lists are pairwise disjoint and hold every file exactly once.
ListsPartitionFiles ==
    /\ Elems(train_files) \cap Elems(valid_files) = {}
    /\ Elems(train_files) \cap Elems(test_files) = {}
    /\ Elems(valid_files) \cap Elems(test_files) = {}
    /\ Elems(train_files) \cup Elems(valid_files) \cup Elems(test_files)
          = 1..Len(all_files)
    /\ Len(train_files) + Len(valid_files) + Len(test_files) = Len(all_files)

ListSizesRight ==
    /\ IsCeilFifteenPercent(Len(valid_files), Len(all_files))
    /\ IsCeilFifteenPercent(Len(test_files), Len(all_files))
    /\ Len(train_files) = Len(all_files) - Len(valid_files) - Len(test_files)

\* C10 as stated: for every N >= 1 the validation and the test list hold
\* ceil(0.15 * N) files each, train the rest, the lists partition the files
\* and the assertion holds.
C10_SplitSizesAnyN ==
    /\ split_pc # "AssertionError"
    /\ split_pc = "split" => (ListSizesRight /\ ListsPartitionFiles)

\* C10 amended: the assertion holds and the lists partition the files for
\* every N >= 1; the validation and the test list hold ceil(0.15 * N) files
\* each for every N >= 2.
C10_SplitSizesFromTwo ==
    /\ split_pc # "AssertionError"
    /\ split_pc = "split" =>
          /\ ListsPartitionFiles
          /\ Len(all_files) >= 2 => ListSizesRight

C10_Witness ==
    /\ split_pc = "split"
    /\ Len(valid_files) = 2
    /\ Len(test_files) = 2
    /\ Len(train_files) = 3
    /\ all_files # [p \in 1..Len(all_files) |-> p]

====
